---- MODULE Spec2Model ----
\* Layout reflection and matching (implement_uniform_block!) and the
\* variable-length buffer adapter (implement_buffer_content!) of
\* src/src/macros.rs, as state machines.
EXTENDS Integers, Sequences, FiniteSets, TLC

\* ---------------------------------------------------------------- bounds
\* Base offsets handed to matches / build_layout are 0, 8, .., 8*MaxBase.
MaxBase == 1
\* A reflected layout differs from some host type's own layout by at most
\* MaxEdits edits (member dropped, added, swapped, replaced).
MaxEdits == 1
\* Content adapter: head sizes, element sizes, alignments and buffer sizes.
MaxHead == 4
MaxElem == 4
MaxSize == 12
\* the build_bindings calls a behaviour makes
MaxCalls == 3
\* the version entries of a program! invocation
MaxVersions == 2
\* the fields of a uniform! invocation
MaxFields == 2
\* the lines of the discovery run's stderr
MaxStderr == 4

\* ---------------------------------------------------------------- host types
\* The struct types the macro is instantiated for.  Each is its ordered
\* field list ($field_name ...), with the true memory offset of every field
\* and the field's type.  Fields of a basic type end the recursion.
StructNames == {"Position", "Transform", "Entity", "Object", "Scene"}

BasicNames == {"[f32; 2]", "[f32; 3]"}

type_tag(basic) ==
    CASE basic = "[f32; 2]" -> "FloatVec2"
      [] basic = "[f32; 3]" -> "FloatVec3"

fields(T) ==
    CASE T = "Position"  -> << [name |-> "position", offset |-> 0, ty |-> "[f32; 2]"] >>
      [] T = "Transform" -> << [name |-> "pos", offset |-> 0, ty |-> "[f32; 2]"],
                               [name |-> "rot", offset |-> 8, ty |-> "[f32; 3]"] >>
      [] T = "Entity"    -> << [name |-> "xf", offset |-> 0, ty |-> "Transform"] >>
      [] T = "Object"    -> << [name |-> "position", offset |-> 0, ty |-> "[f32; 2]"],
                               [name |-> "xf", offset |-> 8, ty |-> "Transform"] >>
      [] T = "Scene"     -> << [name |-> "obj", offset |-> 0, ty |-> "Object"] >>

field_names(T) == { fields(T)[i].name : i \in 1..Len(fields(T)) }

\* The struct types implement_vertex! is applied to, each with its declared
\* fields, their types and the offsets the compiler gave them.
VertexTypes == {"Vertex", "Foo"}

vertex_fields(T) ==
    CASE T = "Vertex"   -> << [name |-> "position", offset |-> 0, ty |-> "[f32; 2]"],
                              [name |-> "color", offset |-> 8, ty |-> "[f32; 3]"] >>
      [] T = "Foo"      -> << [name |-> "pos", offset |-> 0, ty |-> "[f32; 2]"] >>

\* ---------------------------------------------------------------- layouts
Leaf(tag, off) == [kind |-> "Leaf", type_tag |-> tag, offset |-> off]

Struct(ms) == [kind |-> "Struct", members |-> ms]

\* LayoutMismatchError and the Ok(()) of matches.
Ok == [tag |-> "Ok"]

MissingField(n) == [tag |-> "MissingField", name |-> n]

MemberMismatch(m, e) == [tag |-> "MemberMismatch", member |-> m, err |-> e]

LayoutMismatch(e, o) == [tag |-> "LayoutMismatch", expected |-> e, obtained |-> o]

\* build_layout of a basic type: the Leaf the type demands at base_offset.
leaf_build_layout(basic, base_offset) == Leaf(type_tag(basic), base_offset)

RECURSIVE build_layout_at_field(_, _)
\* build_layout with the field's layout taken at offset, base_offset dropped
build_layout_at_field(T, base_offset) ==
    IF T \in BasicNames
    THEN leaf_build_layout(T, base_offset)
    ELSE Struct([i \in 1..Len(fields(T)) |->
                    << fields(T)[i].name,
                       build_layout_at_field(fields(T)[i].ty, fields(T)[i].offset) >>])

RECURSIVE build_layout(_, _)
\* build_layout generated by implement_uniform_block!: one member per listed
\* field, the field type's layout at offset + base_offset.
build_layout(T, base_offset) ==
    IF T \in BasicNames
    THEN leaf_build_layout(T, base_offset)
    ELSE Struct([i \in 1..Len(fields(T)) |->
                    << fields(T)[i].name,
                       build_layout(fields(T)[i].ty, fields(T)[i].offset + base_offset) >>])

\* matches of a basic type: the reflected node must be the Leaf the type
\* demands at base_offset (same type tag, same offset).
leaf_matches(basic, layout, base_offset) ==
    IF layout = leaf_build_layout(basic, base_offset)
    THEN Ok
    ELSE LayoutMismatch(leaf_build_layout(basic, base_offset), layout)

\* ---------------------------------------------------------------- inputs
Bases == { 8 * k : k \in 0..MaxBase }

Tags == {"FloatVec2", "FloatVec3", "FloatMat3"}

RemoveAt(s, i) == SubSeq(s, 1, i - 1) \o SubSeq(s, i + 1, Len(s))

SwapAt(s, i) == [k \in 1..Len(s) |-> IF k = i THEN s[i + 1] ELSE IF k = i + 1 THEN s[i] ELSE s[k]]

SetLayoutAt(s, i, l) == [s EXCEPT ![i] = << s[i][1], l >>]

\* The members an edit may add to a Struct node: one the hosts do not
\* declare, or a second member under a name the node already has.
Added(ms) ==
    { << "extra", Leaf("FloatVec3", 16) >> }
        \cup { ms[i] : i \in 1..Len(ms) }
        \cup { << ms[i][1], Leaf("FloatMat3", 0) >> : i \in 1..Len(ms) }

RECURSIVE Edits(_)
\* The layouts one edit away from l, as the shader-reflection subsystem may
\* report them: a leaf retagged or moved, a node replaced by a leaf, a member
\* dropped, added in front or behind, or swapped with its neighbour.
Edits(l) ==
    IF l.kind = "Leaf"
    THEN ({ Leaf(t, l.offset) : t \in Tags }
            \cup { Leaf(l.type_tag, o) : o \in {0, l.offset + 8} }
            \cup { Struct(<< >>) }) \ {l}
    ELSE LET ms == l.members
         IN  { Leaf("FloatVec2", 0) }
               \cup { Struct(RemoveAt(ms, i)) : i \in 1..Len(ms) }
               \cup { Struct(SwapAt(ms, i)) : i \in 1..(Len(ms) - 1) }
               \cup { Struct(<< a >> \o ms) : a \in Added(ms) }
               \cup { Struct(Append(ms, a)) : a \in Added(ms) }
               \cup UNION { { Struct(SetLayoutAt(ms, i, e)) : e \in Edits(ms[i][2]) }
                             : i \in 1..Len(ms) }

RECURSIVE Reflected(_)
Reflected(n) ==
    IF n = 0
    THEN { build_layout(T, b) : T \in StructNames, b \in Bases }
    ELSE LET R == Reflected(n - 1) IN R \cup UNION { Edits(l) : l \in R }

ReflectedLayouts == Reflected(MaxEdits)

\* ---------------------------------------------------------------- state
VARIABLES
    host,       \* the struct type whose generated impl is called
    base,       \* the base_offset argument of the outermost call
    built,      \* the value build_layout(base) returned, NoLayout before the call
    reflected,  \* the layout handed to the outermost matches, NoLayout before
    stack,      \* the active matches calls, outermost first
    ret,        \* the value the callee just returned to the frame on top
    result,     \* the value the outermost matches returned
    log,        \* what the calls did, in order
    content,    \* the type implement_buffer_content! was applied to
    csize,      \* the size argument of the last Content call
    cop,        \* the last Content function called, "none" before any
    cres,       \* what it returned
    rsize,      \* the size argument of the last ref_from_ptr call
    cref,       \* what ref_from_ptr returned
    rd,         \* the call of read: its position, storage and outcome
    first,      \* the outcome of an earlier outermost matches, None before a second one
    impls,      \* per vertex type, the implement_vertex! invocation and its BINDINGS
    calls,      \* the build_bindings calls made and what each returned, in order
    entries,    \* the version entries of a program! invocation, in listing order
    backend,    \* the GLSL versions the backend supports
    pgm,        \* the expansion of program!: its position, calls made and value
    uni,        \* the expansion of uniform!: the fields left, calls made and value
    xt          \* the xtask process: the test task, its worker threads, its exit

mvars == << host, base, built, reflected, stack, ret, result, log, first >>

cvars == << content, csize, cop, cres, rsize, cref, rd >>

vvars == << impls, calls >>

pvars == << entries, backend, pgm >>

tvars == << pvars, uni, xt >>

vars == << mvars, cvars, vvars, tvars >>

NoLayout == [kind |-> "None"]

None == [tag |-> "None"]

Frame(ty, layout, base_offset) ==
    [ty |-> ty, layout |-> layout, base_offset |-> base_offset, pc |-> "entry", m |-> 1, f |-> 1]

Top == stack[Len(stack)]

Depth == Len(stack)

SetTop(fr) == [stack EXCEPT ![Len(stack)] = fr]

\* The first member of that name, 0 when there is none (members.iter().find).
RECURSIVE find_from(_, _, _)
find_from(members, name, i) ==
    IF i > Len(members) THEN 0
    ELSE IF members[i][1] = name THEN i
    ELSE find_from(members, name, i + 1)

\* find taking the last member of that name
find_last(members, name) ==
    LET S == { i \in 1..Len(members) : members[i][1] = name }
    IN  IF S = {} THEN 0 ELSE CHOOSE i \in S : \A k \in S : k <= i

find(members, name) == find_from(members, name, 1)

\* The base offset matches hands to the field type's matches.
input_offset(T, f, base_offset) == fields(T)[f].offset

\* read has not been called
ReadIdle ==
    [pc |-> "idle", size |-> 0, suitable |-> "none", storage |-> << >>, view_len |-> 0,
     init_calls |-> 0, init_res |-> [tag |-> "none"], out |-> [tag |-> "none"]]

\* is_size_suitable and ref_from_ptr have not been called
SizeIdle ==
    /\ csize = 0
    /\ cop = "none"
    /\ cres = [value |-> "none", underflow |-> FALSE]
    /\ rsize = 0
    /\ cref = [tag |-> "none", count |-> 0]

\* No Content function has been called.
ContentIdle ==
    /\ content = [head |-> 0, elem |-> 4, align |-> 4]
    /\ SizeIdle
    /\ rd = ReadIdle

\* a type implement_vertex! was not applied to
NoImpl == [inv |-> [form |-> "none", args |-> << >>], BINDINGS |-> << >>]

\* No type implements Vertex.
VertexIdle ==
    /\ impls = [T \in VertexTypes |-> NoImpl]
    /\ calls = << >>

\* program! is not invoked
PgmIdle ==
    [pc |-> "none", i |-> 0, comma |-> FALSE, version |-> None, queries |-> << >>,
     news |-> << >>, out |-> None]

ProgramIdle ==
    /\ entries = << >>
    /\ backend = {}
    /\ pgm = PgmIdle

\* uniform! is not invoked
UniIdle ==
    [pc |-> "none", listed |-> << >>, pairs |-> << >>, comma |-> FALSE, trailing |-> FALSE,
     k |-> 0,
     uniforms |-> None, calls |-> << >>, out |-> None]

\* the xtask is not run
XtIdle ==
    [pc |-> "none", disc |-> None, workers |-> << >>, joined |-> 0, result |-> None,
     exit |-> None]

\* Neither program!, uniform! nor the xtask runs.
OthersIdle ==
    /\ ProgramIdle
    /\ uni = UniIdle
    /\ xt = XtIdle

MatcherInit ==
    /\ ContentIdle
    /\ VertexIdle
    /\ OthersIdle
    /\ first = None
    /\ host \in StructNames
    /\ base \in Bases
    /\ built = NoLayout
    /\ reflected = NoLayout
    /\ stack = << >>
    /\ ret = None
    /\ result = None
    /\ log = << >>

\* return v from the call on top of the stack
Return(v) ==
    /\ stack' = SubSeq(stack, 1, Len(stack) - 1)
    /\ IF Len(stack) = 1
       THEN result' = v /\ ret' = None
       ELSE ret' = v /\ UNCHANGED result
    /\ log' = Append(log, [op |-> "ret", depth |-> Depth, ty |-> Top.ty, val |-> v])

Idle == stack = << >> /\ result = None

\* <T as UniformBlock>::build_layout(base)
BuildLayout ==
    /\ Idle
    /\ built = NoLayout
    /\ built' = build_layout(host, base)
    /\ UNCHANGED << tvars, vvars, cvars, first, host, base, reflected, stack, ret, result, log >>

Call(l) ==
    /\ reflected' = l
    /\ stack' = << Frame(host, l, base) >>
    /\ log' = << [op |-> "call", depth |-> 1, ty |-> host, layout |-> l,
                  base_offset |-> base, field |-> "", field_offset |-> 0,
                  caller_base |-> base] >>
    /\ UNCHANGED << tvars, vvars, cvars, first, host, base, built, ret, result >>

\* T::matches(&layout, base) on a layout the reflection subsystem supplies
Matches ==
    /\ Idle
    /\ built = NoLayout
    /\ \E l \in ReflectedLayouts : Call(l)

\* T::matches(&T::build_layout(base), base)
MatchesBuilt ==
    /\ Idle
    /\ built # NoLayout
    /\ Call(built)

\* EnterStruct going to the fields at once, without the loop over the members
EnterStructSkipsMembers ==
    /\ stack # << >>
    /\ Top.ty \in StructNames
    /\ Top.pc = "entry"
    /\ Top.layout.kind = "Struct"
    /\ stack' = SetTop([Top EXCEPT !.pc = "fields"])
    /\ UNCHANGED << tvars, vvars, cvars, first, host, base, built, reflected, ret, result, log >>

\* if let &BlockLayout::Struct { ref members } = layout
EnterStruct ==
    /\ stack # << >>
    /\ Top.ty \in StructNames
    /\ Top.pc = "entry"
    /\ Top.layout.kind = "Struct"
    /\ stack' = SetTop([Top EXCEPT !.pc = IF Top.layout.members = << >>
                                          THEN "fields" ELSE "members"])
    /\ UNCHANGED << tvars, vvars, cvars, first, host, base, built, reflected, ret, result, log >>

\* NotStruct with expected and obtained exchanged
NotStructSwapped ==
    /\ stack # << >>
    /\ Top.ty \in StructNames
    /\ Top.pc = "entry"
    /\ Top.layout.kind # "Struct"
    /\ Return(LayoutMismatch(build_layout(Top.ty, Top.base_offset), Top.layout))
    /\ UNCHANGED << tvars, vvars, cvars, first, host, base, built, reflected >>

\* else { Err(LayoutMismatch { expected: layout.clone(), obtained: build_layout(base_offset) }) }
NotStruct ==
    /\ stack # << >>
    /\ Top.ty \in StructNames
    /\ Top.pc = "entry"
    /\ Top.layout.kind # "Struct"
    /\ Return(LayoutMismatch(Top.layout, build_layout(Top.ty, Top.base_offset)))
    /\ UNCHANGED << tvars, vvars, cvars, first, host, base, built, reflected >>

\* MemberExists without the comparison against the listed fields
MemberExistsUnchecked ==
    /\ stack # << >>
    /\ Top.pc = "members"
    /\ stack' = SetTop([Top EXCEPT
            !.m = Top.m + 1,
            !.pc = IF Top.m = Len(Top.layout.members) THEN "fields" ELSE "members"])
    /\ log' = Append(log, [op |-> "member", depth |-> Depth,
                           name |-> Top.layout.members[Top.m][1]])
    /\ UNCHANGED << tvars, vvars, cvars, first, host, base, built, reflected, ret, result >>

\* MemberExists holding the m-th member against the m-th listed field
MemberExistsInOrder ==
    /\ stack # << >>
    /\ Top.pc = "members"
    /\ LET name == Top.layout.members[Top.m][1]
       IN  IF Top.m > Len(fields(Top.ty)) \/ fields(Top.ty)[Top.m].name # name
           THEN /\ Return(MissingField(name))
                /\ UNCHANGED << tvars, vvars, cvars, first, host, base, built, reflected >>
           ELSE /\ stack' = SetTop([Top EXCEPT
                        !.m = Top.m + 1,
                        !.pc = IF Top.m = Len(Top.layout.members) THEN "fields" ELSE "members"])
                /\ log' = Append(log, [op |-> "member", depth |-> Depth, name |-> name])
                /\ UNCHANGED << tvars, vvars, cvars, first, host, base, built, reflected, ret, result >>

\* MemberExists reporting the last undeclared member instead of the first
MemberExistsLast ==
    /\ stack # << >>
    /\ Top.pc = "members"
    /\ LET ms == Top.layout.members
           bad == { i \in 1..Len(ms) : ms[i][1] \notin field_names(Top.ty) }
       IN  IF bad # {}
           THEN /\ Return(MissingField(ms[CHOOSE i \in bad : \A h \in bad : h <= i][1]))
                /\ UNCHANGED << tvars, vvars, cvars, first, host, base, built, reflected >>
           ELSE /\ stack' = SetTop([Top EXCEPT !.m = Len(ms) + 1, !.pc = "fields"])
                /\ log' = Append(log, [op |-> "member", depth |-> Depth, name |-> ms[1][1]])
                /\ UNCHANGED << tvars, vvars, cvars, first, host, base, built, reflected, ret, result >>

\* One iteration of `for &(ref name, _) in members`: the member must be a
\* listed field, else MissingField with the member's name.
MemberExists ==
    /\ stack # << >>
    /\ Top.pc = "members"
    /\ LET name == Top.layout.members[Top.m][1]
       IN  IF name \notin field_names(Top.ty)
           THEN /\ Return(MissingField(name))
                /\ UNCHANGED << tvars, vvars, cvars, first, host, base, built, reflected >>
           ELSE /\ stack' = SetTop([Top EXCEPT
                        !.m = Top.m + 1,
                        !.pc = IF Top.m = Len(Top.layout.members) THEN "fields" ELSE "members"])
                /\ log' = Append(log, [op |-> "member", depth |-> Depth, name |-> name])
                /\ UNCHANGED << tvars, vvars, cvars, first, host, base, built, reflected, ret, result >>

\* FindField going on to the next field when the member is not found
FindFieldSkipsMissing ==
    /\ stack # << >>
    /\ Top.pc = "fields"
    /\ Top.f <= Len(fields(Top.ty))
    /\ LET fld == fields(Top.ty)[Top.f]
           i == find(Top.layout.members, fld.name)
       IN  IF i = 0
           THEN /\ stack' = SetTop([Top EXCEPT !.f = Top.f + 1])
                /\ UNCHANGED << tvars, vvars, cvars, first, host, base, built, reflected, ret, result, log >>
           ELSE LET reflected_ty == Top.layout.members[i][2]
                    off == input_offset(Top.ty, Top.f, Top.base_offset)
                IN  /\ stack' = Append(SetTop([Top EXCEPT !.pc = "await"]),
                                       Frame(fld.ty, reflected_ty, off))
                    /\ log' = Append(log, [op |-> "call", depth |-> Depth + 1, ty |-> fld.ty,
                                           layout |-> reflected_ty, base_offset |-> off,
                                           field |-> fld.name, field_offset |-> fld.offset,
                                           caller_base |-> Top.base_offset])
                    /\ UNCHANGED << tvars, vvars, cvars, first, host, base, built, reflected, ret, result >>

\* The block of one listed field, up to the call: find the reflected member
\* of the field's name (None: MissingField with the field's name), then call
\* the field type's matches on it.
FindField ==
    /\ stack # << >>
    /\ Top.pc = "fields"
    /\ Top.f <= Len(fields(Top.ty))
    /\ LET fld == fields(Top.ty)[Top.f]
           i == find(Top.layout.members, fld.name)
       IN  IF i = 0
           THEN /\ Return(MissingField(fld.name))
                /\ UNCHANGED << tvars, vvars, cvars, first, host, base, built, reflected >>
           ELSE LET reflected_ty == Top.layout.members[i][2]
                    off == input_offset(Top.ty, Top.f, Top.base_offset)
                IN  /\ stack' = Append(SetTop([Top EXCEPT !.pc = "await"]),
                                       Frame(fld.ty, reflected_ty, off))
                    /\ log' = Append(log, [op |-> "call", depth |-> Depth + 1, ty |-> fld.ty,
                                           layout |-> reflected_ty, base_offset |-> off,
                                           field |-> fld.name, field_offset |-> fld.offset,
                                           caller_base |-> Top.base_offset])
                    /\ UNCHANGED << tvars, vvars, cvars, first, host, base, built, reflected, ret, result >>

\* FieldResult going on to the next field whatever the callee returned
FieldResultContinues ==
    /\ stack # << >>
    /\ Top.pc = "await"
    /\ ret # None
    /\ stack' = SetTop([Top EXCEPT !.pc = "fields", !.f = Top.f + 1])
    /\ ret' = None
    /\ UNCHANGED << tvars, vvars, cvars, first, host, base, built, reflected, result, log >>

\* FieldResult returning the callee's error as it is
FieldResultUnwrapped ==
    /\ stack # << >>
    /\ Top.pc = "await"
    /\ ret # None
    /\ IF ret = Ok
       THEN /\ stack' = SetTop([Top EXCEPT !.pc = "fields", !.f = Top.f + 1])
            /\ ret' = None
            /\ UNCHANGED << tvars, vvars, cvars, first, host, base, built, reflected, result, log >>
       ELSE /\ Return(ret)
            /\ UNCHANGED << tvars, vvars, cvars, first, host, base, built, reflected >>

\* match matches_from_ty(..) { Ok(_) => (), Err(e) => return Err(MemberMismatch {..}) }
FieldResult ==
    /\ stack # << >>
    /\ Top.pc = "await"
    /\ ret # None
    /\ IF ret = Ok
       THEN /\ stack' = SetTop([Top EXCEPT !.pc = "fields", !.f = Top.f + 1])
            /\ ret' = None
            /\ UNCHANGED << tvars, vvars, cvars, first, host, base, built, reflected, result, log >>
       ELSE /\ Return(MemberMismatch(fields(Top.ty)[Top.f].name, ret))
            /\ UNCHANGED << tvars, vvars, cvars, first, host, base, built, reflected >>

\* Ok(()) after the last listed field
ReturnOk ==
    /\ stack # << >>
    /\ Top.pc = "fields"
    /\ Top.f > Len(fields(Top.ty))
    /\ Return(Ok)
    /\ UNCHANGED << tvars, vvars, cvars, first, host, base, built, reflected >>

\* matches of a basic field type
LeafMatches ==
    /\ stack # << >>
    /\ Top.ty \in BasicNames
    /\ Top.pc = "entry"
    /\ Return(leaf_matches(Top.ty, Top.layout, Top.base_offset))
    /\ UNCHANGED << tvars, vvars, cvars, first, host, base, built, reflected >>

MatcherNext ==
    \/ BuildLayout
    \/ Matches
    \/ MatchesBuilt
    \/ EnterStruct
    \/ NotStruct
    \/ MemberExists
    \/ FindField
    \/ FieldResult
    \/ ReturnOk
    \/ LeafMatches

SpecMatcher == MatcherInit /\ [][MatcherNext]_vars

\* ---------------------------------------------------------------- Content
\* A type with a head and a trailing slice [E]: head is the offset of the
\* slice, elem the size of E, align the alignment of the whole type.
Aligns == {1, 2, 4}

ContentTypes == [head : 0..MaxHead, elem : 0..MaxElem, align : Aligns]

RoundUp(n, a) == ((n + a - 1) \div a) * a

\* mem::size_of_val of a reference whose slice length is len
size_of_val(ty, len) == RoundUp(ty.head + len * ty.elem, ty.align)

min_size(ty) == size_of_val(ty, 0)

step(ty) == size_of_val(ty, 1) - min_size(ty)

True == "true"

False == "false"

Panic == "panic"

Bool(b) == IF b THEN True ELSE False

\* a % b on usize: a remainder by zero panics
usize_rem_is_zero(a, b) == IF b = 0 THEN Panic ELSE Bool(a % b = 0)

\* is_size_suitable with size >= min_size
is_size_suitable_ge(ty, size) ==
    IF size >= min_size(ty)
    THEN [value |-> usize_rem_is_zero(size - min_size(ty), step(ty)),
          underflow |-> size < min_size(ty)]
    ELSE [value |-> False, underflow |-> FALSE]

\* size > min_size && (size - min_size) % step == 0; underflow tells
\* whether size - min_size was evaluated with size < min_size.
is_size_suitable(ty, size) ==
    IF size > min_size(ty)
    THEN [value |-> usize_rem_is_zero(size - min_size(ty), step(ty)),
          underflow |-> size < min_size(ty)]
    ELSE [value |-> False, underflow |-> FALSE]

\* No matches or build_layout call is made.
MatcherIdle ==
    /\ host = "Position"
    /\ base = 0
    /\ built = NoLayout
    /\ reflected = NoLayout
    /\ stack = << >>
    /\ ret = None
    /\ result = None
    /\ log = << >>
    /\ first = None

ContentInit ==
    /\ content \in ContentTypes
    /\ SizeIdle
    /\ rd = ReadIdle
    /\ MatcherIdle
    /\ VertexIdle
    /\ OthersIdle

\* <T as Content>::is_size_suitable(size)
IsSizeSuitable ==
    \E size \in 0..MaxSize :
        /\ csize' = size
        /\ cop' = "is_size_suitable"
        /\ cres' = is_size_suitable(content, size)
        /\ UNCHANGED << tvars, vvars, mvars, content, rsize, cref, rd >>

\* if size < min_size { None } else if variadic % step != 0 { None }
\* else { Some(.. (ptr, variadic / step)) }
ref_from_ptr(ty, size) ==
    IF size < min_size(ty)
    THEN [tag |-> "None", count |-> 0]
    ELSE LET variadic == size - min_size(ty)
         IN  IF step(ty) = 0
             THEN [tag |-> "panic", count |-> 0]
             ELSE IF variadic % step(ty) # 0
             THEN [tag |-> "None", count |-> 0]
             ELSE [tag |-> "Some", count |-> variadic \div step(ty)]

\* <T as Content>::ref_from_ptr(ptr, size)
RefFromPtr ==
    \E size \in 0..MaxSize :
        /\ rsize' = size
        /\ cref' = ref_from_ptr(content, size)
        /\ UNCHANGED << tvars, vvars, mvars, content, csize, cop, cres, rd >>

ContentNext ==
    \/ IsSizeSuitable
    \/ RefFromPtr

SpecContent == ContentInit /\ [][ContentNext]_vars

\* ---------------------------------------------------------------- read
\* What Vec::with_capacity(size) followed by set_len(size) may hold: the
\* bytes are not written, so any content is possible; three fills stand for it.
Uninit(size) ==
    { [i \in 1..size |-> b] : b \in {0, 255} }
        \cup { [i \in 1..size |-> IF i = size THEN 255 ELSE 0] }

\* The bytes the closure f may write (with 7) before it returns.
Writes(size) == { {}, 1..size } \cup { {1} \cap (1..size) }

\* What the closure f may return.
InitResults == { [tag |-> "Ok"], [tag |-> "Err", e |-> "e1"], [tag |-> "Err", e |-> "e2"] }

ReadInit ==
    /\ content \in ContentTypes
    /\ SizeIdle
    /\ rd = ReadIdle
    /\ MatcherIdle
    /\ VertexIdle
    /\ OthersIdle

\* ReadAssert with the assertion compiled out (debug_assert!)
ReadAssertOff ==
    /\ rd.pc = "idle"
    /\ \E size \in 0..MaxSize :
          LET ok == is_size_suitable(content, size).value
          IN  rd' = [rd EXCEPT !.size = size,
                               !.suitable = ok,
                               !.pc = IF ok = Panic THEN "panicked" ELSE "alloc"]
    /\ UNCHANGED << tvars, vvars, mvars, content, csize, cop, cres, rsize, cref >>

\* read(size, f) up to assert!(is_size_suitable(size)): a false value
\* panics with the assertion, a remainder by zero panics inside the call.
ReadAssert ==
    /\ rd.pc = "idle"
    /\ \E size \in 0..MaxSize :
          LET ok == is_size_suitable(content, size).value
          IN  rd' = [rd EXCEPT !.size = size,
                               !.suitable = ok,
                               !.pc = IF ok = True THEN "alloc"
                                      ELSE IF ok = False THEN "assert_failed"
                                      ELSE "panicked"]
    /\ UNCHANGED << tvars, vvars, mvars, content, csize, cop, cres, rsize, cref >>

\* Vec::with_capacity(size); set_len(size); into_boxed_slice(); transmute:
\* the Box<[u8]> of length size becomes the Box of the type, its slice
\* length being the length of the byte slice.
ReadAlloc ==
    /\ rd.pc = "alloc"
    /\ \E bytes \in Uninit(rd.size) :
          rd' = [rd EXCEPT !.storage = bytes, !.view_len = rd.size, !.pc = "init"]
    /\ UNCHANGED << tvars, vvars, mvars, content, csize, cop, cres, rsize, cref >>

\* f(&mut storage)?; Ok(storage)
ReadCallInit ==
    /\ rd.pc = "init"
    /\ \E w \in Writes(rd.size), r \in InitResults :
          LET written == [i \in 1..rd.size |-> IF i \in w THEN 7 ELSE rd.storage[i]]
          IN  rd' = [rd EXCEPT
                        !.storage = written,
                        !.init_calls = rd.init_calls + 1,
                        !.init_res = r,
                        !.pc = "done",
                        !.out = IF r.tag = "Ok"
                                THEN [tag |-> "Ok", buffer |-> written, written |-> w]
                                ELSE r]
    /\ UNCHANGED << tvars, vvars, mvars, content, csize, cop, cres, rsize, cref >>

ReadNext ==
    \/ ReadAssert
    \/ ReadAlloc
    \/ ReadCallInit

SpecRead == ReadInit /\ [][ReadNext]_vars

\* ---------------------------------------------------------------- implement_vertex
\* <T as Attribute>::TYPE of a field type
Attribute_TYPE(ty) ==
    CASE ty = "[f32; 2]" -> "vec2"
      [] ty = "[f32; 3]" -> "vec3"

\* the declared field of that name
field(T, name) ==
    CHOOSE f \in { vertex_fields(T)[i] : i \in 1..Len(vertex_fields(T)) } : f.name = name

\* __glium_offset_of!($struct_name, $field_name)
offset_of(T, name) == field(T, name).offset

\* attr_type_of_val(None::<&$struct_name>.map(|v| &v.$field_name))
attr_type_of_val(T, name) == Attribute_TYPE(field(T, name).ty)

\* size_of of a field type
size_of(ty) ==
    CASE ty = "[f32; 2]" -> 8
      [] ty = "[f32; 3]" -> 12

RECURSIVE packed_offset(_, _, _)
\* where the i-th listed field would start if the listed fields were laid
\* out one after the other
packed_offset(T, args, i) ==
    IF i = 1 THEN 0
    ELSE packed_offset(T, args, i - 1) + size_of(field(T, args[i - 1].field).ty)

\* plain_arm assigning offsets itself, in listing order
plain_arm_packed(T, args) ==
    [i \in 1..Len(args) |->
        << args[i].field, packed_offset(T, args, i), -1,
           attr_type_of_val(T, args[i].field), FALSE >>]

\* ($struct_name:ident, $($field_name:ident),+)
plain_arm(T, args) ==
    [i \in 1..Len(args) |->
        << args[i].field, offset_of(T, args[i].field), -1,
           attr_type_of_val(T, args[i].field), FALSE >>]

\* normalize_arm taking every flag from the first field
normalize_arm_first(T, args) ==
    [i \in 1..Len(args) |->
        << args[i].field, offset_of(T, args[i].field), -1,
           attr_type_of_val(T, args[i].field), args[1].should_normalize >>]

\* ($struct_name:ident, $($field_name:ident normalize($should_normalize:expr)),+)
normalize_arm(T, args) ==
    [i \in 1..Len(args) |->
        << args[i].field, offset_of(T, args[i].field), -1,
           attr_type_of_val(T, args[i].field), args[i].should_normalize >>]

\* ($struct_name:ident, $($field_name:ident location($location:expr)),+)
location_arm(T, args) ==
    [i \in 1..Len(args) |->
        << args[i].field, offset_of(T, args[i].field), args[i].location,
           attr_type_of_val(T, args[i].field), FALSE >>]

\* ($struct_name:ident, $($field_name:ident),+,): the plain arm on the same list
trailing_comma_arm(T, args) == plain_arm(T, args)

\* The BINDINGS constant the matching arm of implement_vertex! defines.
implement_vertex(T, inv) ==
    CASE inv.form = "plain"     -> plain_arm(T, inv.args)
      [] inv.form = "normalize" -> normalize_arm(T, inv.args)
      [] inv.form = "location"  -> location_arm(T, inv.args)
      [] inv.form = "plain,"    -> trailing_comma_arm(T, inv.args)

\* The locations an author writes in location(..).
Locations == {0, 3}

Injective(s) == \A i, j \in 1..Len(s) : s[i] = s[j] => i = j

\* The ways to list fields of T: any of them, in any order, each once.
Listings(T) ==
    LET names == { vertex_fields(T)[i].name : i \in 1..Len(vertex_fields(T)) }
    IN  { s \in UNION { [1..n -> names] : n \in 1..Len(vertex_fields(T)) } : Injective(s) }

\* The invocations of implement_vertex! on T that some arm accepts.
Invocations(T) ==
    UNION { { [form |-> form, args |-> [i \in 1..Len(s) |-> [field |-> s[i]]]]
                : form \in {"plain", "plain,"} }
            \cup { [form |-> "normalize",
                    args |-> [i \in 1..Len(s) |-> [field |-> s[i], should_normalize |-> n[i]]]]
                : n \in [1..Len(s) -> BOOLEAN] }
            \cup { [form |-> "location",
                    args |-> [i \in 1..Len(s) |-> [field |-> s[i], location |-> l[i]]]]
                : l \in [1..Len(s) -> Locations] }
          : s \in Listings(T) }

\* The impls the macro invocations of a crate leave: per type none or one.
Impls(T) ==
    { NoImpl } \cup { [inv |-> inv, BINDINGS |-> implement_vertex(T, inv)] : inv \in Invocations(T) }

VertexInit ==
    /\ impls \in { [T \in VertexTypes |-> CASE T = "Vertex" -> v [] T = "Foo" -> f]
                      : v \in Impls("Vertex"), f \in Impls("Foo") }
    /\ calls = << >>
    /\ MatcherIdle
    /\ content = [head |-> 0, elem |-> 4, align |-> 4]
    /\ SizeIdle
    /\ rd = ReadIdle
    /\ OthersIdle

\* BuildBindings handing out the array and leaving it reversed behind
BuildBindingsTakes ==
    /\ Len(calls) < MaxCalls
    /\ \E T \in VertexTypes :
        /\ impls[T] # NoImpl
        /\ calls' = Append(calls, [ty |-> T, format |-> impls[T].BINDINGS])
        /\ impls' = [impls EXCEPT ![T].BINDINGS =
                        [i \in 1..Len(@) |-> @[Len(@) + 1 - i]]]
    /\ UNCHANGED << tvars, mvars, cvars >>

\* <T as Vertex>::build_bindings(): Self::BINDINGS
BuildBindings ==
    /\ Len(calls) < MaxCalls
    /\ \E T \in VertexTypes :
        /\ impls[T] # NoImpl
        /\ calls' = Append(calls, [ty |-> T, format |-> impls[T].BINDINGS])
    /\ UNCHANGED << tvars, mvars, cvars, impls >>

VertexNext == BuildBindings

SpecVertex == VertexInit /\ [][VertexNext]_vars

\* ---------------------------------------------------------------- program!
\* The numbers an author writes in front of `=>`.
Nums == {100, 109, 300, 25930}

Version(api, major, minor) == [api |-> api, major |-> major, minor |-> minor]

\* n as u8
as_u8(n) == n % 256

\* parse_num_gl computing in u32 to the end
parse_num_gl_wide(num) ==
    IF num = 100
    THEN Version("GlEs", 1, 0)
    ELSE Version("Gl", num \div 100, (num % 100) \div 10)

\* (_parse_num_gl $num:expr)
parse_num_gl(num) ==
    IF num = 100
    THEN Version("GlEs", 1, 0)
    ELSE Version("Gl", as_u8(num \div 100), as_u8((num % 100) \div 10))

\* (_parse_num_gles $num:expr)
parse_num_gles(num) ==
    Version("GlEs", as_u8(num \div 100), as_u8((num % 100) \div 10))

\* the version of an entry `$num =>` or `$num es =>`
parse_entry(e) == IF e.es THEN parse_num_gles(e.num) ELSE parse_num_gl(e.num)

Entries == [num : Nums, es : BOOLEAN]

Versions == { parse_entry(e) : e \in Entries }

\* What a backend may support: nothing, one API, the 3.x versions, everything.
Backends ==
    { {}, Versions,
      { v \in Versions : v.api = "Gl" },
      { v \in Versions : v.api = "GlEs" },
      { v \in Versions : v.major >= 3 } }

Some(x) == [tag |-> "Some", val |-> x]

\* the locals of _inner before the block is read
Defaults ==
    [vertex_shader |-> "", tessellation_control_shader |-> None,
     tessellation_evaluation_shader |-> None, geometry_shader |-> None,
     fragment_shader |-> "", transform_feedback_varyings |-> None,
     outputs_srgb |-> TRUE, uses_point_size |-> FALSE]

\* program_ty with the point_size arm binding the sRGB local
program_ty_crossed(ty, src, in) ==
    CASE ty = "vertex"                  -> [in EXCEPT !.vertex_shader = src]
      [] ty = "tessellation_control"    -> [in EXCEPT !.tessellation_control_shader = Some(src)]
      [] ty = "tessellation_evaluation" -> [in EXCEPT !.tessellation_evaluation_shader = Some(src)]
      [] ty = "geometry"                -> [in EXCEPT !.geometry_shader = Some(src)]
      [] ty = "fragment"                -> [in EXCEPT !.fragment_shader = src]
      [] ty = "point_size"              -> [in EXCEPT !.outputs_srgb = src]
      [] ty = "outputs_srgb"            -> [in EXCEPT !.outputs_srgb = src]

\* (_program_ty $ty, $src, ..): the let that shadows the local of that key
program_ty(ty, src, in) ==
    CASE ty = "vertex"                  -> [in EXCEPT !.vertex_shader = src]
      [] ty = "tessellation_control"    -> [in EXCEPT !.tessellation_control_shader = Some(src)]
      [] ty = "tessellation_evaluation" -> [in EXCEPT !.tessellation_evaluation_shader = Some(src)]
      [] ty = "geometry"                -> [in EXCEPT !.geometry_shader = Some(src)]
      [] ty = "fragment"                -> [in EXCEPT !.fragment_shader = src]
      [] ty = "point_size"              -> [in EXCEPT !.uses_point_size = src]
      [] ty = "outputs_srgb"            -> [in EXCEPT !.outputs_srgb = src]

RECURSIVE read_block(_, _)
\* the locals after the first k pairs of the block
read_block(pairs, k) ==
    IF k = 0 THEN Defaults
    ELSE program_ty(pairs[k].ty, pairs[k].src, read_block(pairs, k - 1))

\* ProgramCreationInput::SourceCode { .. } of a block; a block with a
\* trailing comma is handed to the same arm without it
inner_input(block) == read_block(block.pairs, Len(block.pairs))

Pair(ty, src) == [ty |-> ty, src |-> src]

\* The blocks an author writes after `=>`, with and without a trailing comma.
Blocks ==
    { [pairs |-> ps, comma |-> c] :
        ps \in { << Pair("vertex", "vs"), Pair("fragment", "fs") >>,
                 << Pair("fragment", "fs") >>,
                 << Pair("vertex", "vs"), Pair("fragment", "fs"), Pair("outputs_srgb", FALSE) >>,
                 << Pair("point_size", TRUE), Pair("vertex", "vs"), Pair("fragment", "fs") >>,
                 << Pair("vertex", "vs"), Pair("tessellation_control", "tcs"),
                    Pair("tessellation_evaluation", "tes"), Pair("geometry", "gs"),
                    Pair("fragment", "fs") >>,
                 << Pair("outputs_srgb", FALSE), Pair("vertex", "vs"),
                    Pair("outputs_srgb", TRUE) >> },
        c \in BOOLEAN }

\* What Program::new may return for an input.
NewResults == { [tag |-> "Ok"], [tag |-> "Err", e |-> "CompilationError"],
                [tag |-> "Err", e |-> "LinkingError"] }

NoVersion == [tag |-> "NoVersion"]

\* ProgramChooserCreationError::from(err)
ChooserError_from(err) == [tag |-> "ProgramCreationError", err |-> err]

Err(e) == [tag |-> "Err", err |-> e]

Seqs(S, n) == UNION { [1..k -> S] : k \in 0..n }

\* program!(facade, entries..) before its expansion is evaluated; comma tells
\* whether a comma follows the last block
ProgramInit ==
    /\ entries \in Seqs(Entries, MaxVersions)
    /\ backend \in Backends
    /\ \E c \in BOOLEAN :
        pgm = [pc |-> "start", i |-> 1, comma |-> c, version |-> None,
               queries |-> << >>, news |-> << >>, out |-> None]
    /\ MatcherIdle
    /\ content = [head |-> 0, elem |-> 4, align |-> 4]
    /\ SizeIdle
    /\ rd = ReadIdle
    /\ VertexIdle
    /\ uni = UniIdle
    /\ xt = XtIdle

\* ($facade:expr,): no entry is left
NoVersionArm ==
    /\ pgm.pc = "start"
    /\ pgm.i > Len(entries)
    /\ pgm' = [pgm EXCEPT !.pc = "done", !.out = Err(NoVersion)]
    /\ UNCHANGED << mvars, cvars, vvars, entries, backend, uni, xt >>

\* ($facade:expr,,$($rest:tt)*): the comma a block leaves behind
CommaArm ==
    /\ pgm.pc = "comma"
    /\ pgm' = [pgm EXCEPT !.pc = "start"]
    /\ UNCHANGED << mvars, cvars, vvars, entries, backend, uni, xt >>

\* ($facade:expr, $num:tt => ..) and ($facade:expr, $num:tt es => ..)
VersionArm ==
    /\ pgm.pc = "start"
    /\ pgm.i <= Len(entries)
    /\ pgm' = [pgm EXCEPT !.pc = "inner", !.version = parse_entry(entries[pgm.i])]
    /\ UNCHANGED << mvars, cvars, vvars, entries, backend, uni, xt >>

\* where the else branch of _inner goes on: program!($context, $($rest)*)
Rest(p) ==
    [p EXCEPT !.i = p.i + 1,
              !.version = None,
              !.pc = IF p.i < Len(entries) \/ p.comma THEN "comma" ELSE "start"]

\* Inner taking the else branch when the version is supported
InnerNegated ==
    /\ pgm.pc = "inner"
    /\ LET supported == pgm.version \in backend
           asked == [pgm EXCEPT !.queries = Append(@, [i |-> pgm.i, version |-> pgm.version,
                                                       supported |-> supported])]
       IN  pgm' = IF ~supported THEN [asked EXCEPT !.pc = "build"] ELSE Rest(asked)
    /\ UNCHANGED << mvars, cvars, vvars, entries, backend, uni, xt >>

\* (_inner, ..): if $context.is_glsl_version_supported(&$vers) { .. } else { .. }
Inner ==
    /\ pgm.pc = "inner"
    /\ LET supported == pgm.version \in backend
           asked == [pgm EXCEPT !.queries = Append(@, [i |-> pgm.i, version |-> pgm.version,
                                                       supported |-> supported])]
       IN  pgm' = IF supported THEN [asked EXCEPT !.pc = "build"] ELSE Rest(asked)
    /\ UNCHANGED << mvars, cvars, vvars, entries, backend, uni, xt >>

\* the value of the if branch for what Program::new returned
Built(p, r, input) ==
    [p EXCEPT !.pc = "done",
              !.out = IF r.tag = "Ok"
                      THEN [tag |-> "Ok", program |-> input]
                      ELSE Err(ChooserError_from(r.e))]

\* Build reporting a failed build as NoVersion
BuildErrAsNoVersion ==
    /\ pgm.pc = "build"
    /\ \E block \in Blocks, r \in NewResults :
        LET input == inner_input(block)
            called == [pgm EXCEPT !.news = Append(@, [i |-> pgm.i, version |-> pgm.version,
                                                     block |-> block, input |-> input,
                                                     result |-> r])]
        IN  pgm' = IF r.tag = "Ok" THEN Built(called, r, input)
                   ELSE [called EXCEPT !.pc = "done", !.out = Err(NoVersion)]
    /\ UNCHANGED << mvars, cvars, vvars, entries, backend, uni, xt >>

\* Build going on to the entries left when the build failed
BuildFallsBack ==
    /\ pgm.pc = "build"
    /\ \E block \in Blocks, r \in NewResults :
        LET input == inner_input(block)
            called == [pgm EXCEPT !.news = Append(@, [i |-> pgm.i, version |-> pgm.version,
                                                     block |-> block, input |-> input,
                                                     result |-> r])]
        IN  pgm' = IF r.tag = "Ok" THEN Built(called, r, input) ELSE Rest(called)
    /\ UNCHANGED << mvars, cvars, vvars, entries, backend, uni, xt >>

\* The if branch of _inner: the block is read into the locals, the input is
\* made of them and Program::new($context, input).map_err(..) is the value.
Build ==
    /\ pgm.pc = "build"
    /\ \E block \in Blocks, r \in NewResults :
        LET input == inner_input(block)
            called == [pgm EXCEPT !.news = Append(@, [i |-> pgm.i, version |-> pgm.version,
                                                     block |-> block, input |-> input,
                                                     result |-> r])]
        IN  pgm' = Built(called, r, input)
    /\ UNCHANGED << mvars, cvars, vvars, entries, backend, uni, xt >>

ProgramNext ==
    \/ NoVersionArm
    \/ CommaArm
    \/ VersionArm
    \/ Inner
    \/ Build

SpecProgram == ProgramInit /\ [][ProgramNext]_vars

\* ---------------------------------------------------------------- uniform!
EmptyUniforms == [tag |-> "EmptyUniforms"]

\* UniformsStorage::new(name, value)
UniformsStorage_new(name, value) ==
    [tag |-> "UniformsStorage", name |-> name, value |-> value, rest |-> EmptyUniforms]

\* UniformsStorage::add(self, name, value)
UniformsStorage_add(self, name, value) ==
    [tag |-> "UniformsStorage", name |-> name, value |-> value, rest |-> self]

\* The `field: value` items an author lists.
Fields == [field : {"a", "b"}, value : {5, 6}]

\* the invocation at hand has no comma after its last item
Settled == uni.pc = "start" /\ ~uni.comma

CtorCall(fn, p) == [fn |-> fn, name |-> p.field, value |-> p.value]

\* uniform!{..} before its expansion is evaluated, with or without a comma
\* after the last item
UniformInit ==
    /\ \E ps \in Seqs(Fields, MaxFields), c \in BOOLEAN :
        uni = [pc |-> "start", listed |-> ps, pairs |-> ps, comma |-> c, trailing |-> c,
               k |-> 0,
               uniforms |-> None, calls |-> << >>, out |-> None]
    /\ MatcherIdle
    /\ content = [head |-> 0, elem |-> 4, align |-> 4]
    /\ SizeIdle
    /\ rd = ReadIdle
    /\ VertexIdle
    /\ ProgramIdle
    /\ xt = XtIdle

\* (): EmptyUniforms
EmptyArm ==
    /\ Settled
    /\ uni.pairs = << >>
    /\ uni' = [uni EXCEPT !.pc = "done", !.out = EmptyUniforms]
    /\ UNCHANGED << mvars, cvars, vvars, pvars, xt >>

\* ($field:ident: $value:expr)
SingleArm ==
    /\ Settled
    /\ Len(uni.pairs) = 1
    /\ uni' = [uni EXCEPT !.pc = "done",
                          !.calls = Append(@, CtorCall("new", uni.pairs[1])),
                          !.out = UniformsStorage_new(uni.pairs[1].field, uni.pairs[1].value)]
    /\ UNCHANGED << mvars, cvars, vvars, pvars, xt >>

\* ($field1:ident: $value1:expr, $(..),+): let uniforms = UniformsStorage::new(..)
ManyNew ==
    /\ Settled
    /\ Len(uni.pairs) >= 2
    /\ uni' = [uni EXCEPT !.pc = "add", !.k = 2,
                          !.calls = Append(@, CtorCall("new", uni.pairs[1])),
                          !.uniforms = UniformsStorage_new(uni.pairs[1].field, uni.pairs[1].value)]
    /\ UNCHANGED << mvars, cvars, vvars, pvars, xt >>

\* let uniforms = uniforms.add(stringify!($field), $value), once per further item
ManyAdd ==
    /\ uni.pc = "add"
    /\ uni.k <= Len(uni.pairs)
    /\ LET p == uni.pairs[uni.k]
       IN  uni' = [uni EXCEPT !.k = @ + 1,
                              !.calls = Append(@, CtorCall("add", p)),
                              !.uniforms = UniformsStorage_add(uni.uniforms, p.field, p.value)]
    /\ UNCHANGED << mvars, cvars, vvars, pvars, xt >>

\* the block's value: uniforms
ManyEnd ==
    /\ uni.pc = "add"
    /\ uni.k > Len(uni.pairs)
    /\ uni' = [uni EXCEPT !.pc = "done", !.out = uni.uniforms]
    /\ UNCHANGED << mvars, cvars, vvars, pvars, xt >>

\* TrailingCommaArm losing the item in front of the comma
TrailingCommaDropsLast ==
    /\ uni.pc = "start"
    /\ uni.comma
    /\ uni' = [uni EXCEPT !.comma = FALSE,
                          !.pairs = SubSeq(@, 1, Len(@) - 1)]
    /\ UNCHANGED << mvars, cvars, vvars, pvars, xt >>

\* ($($field:ident: $value:expr),*,): uniform!(..) on the items without the comma
TrailingCommaArm ==
    /\ uni.pc = "start"
    /\ uni.comma
    /\ uni' = [uni EXCEPT !.comma = FALSE]
    /\ UNCHANGED << mvars, cvars, vvars, pvars, xt >>

UniformNext ==
    \/ EmptyArm
    \/ SingleArm
    \/ ManyNew
    \/ ManyAdd
    \/ ManyEnd
    \/ TrailingCommaArm

SpecUniform == UniformInit /\ [][UniformNext]_vars

\* ---------------------------------------------------------------- xtask
\* The lines cargo may write to stderr: an empty one, a target indented.
StderrLines == {"", "    a", "    b"}

\* s.trim_start()
trim_start(s) ==
    CASE s = ""      -> ""
      [] s = "    a" -> "a"
      [] s = "    b" -> "b"

\* .lines().skip(2).filter(|&s| s != "").map(|s| s.trim_start().to_owned())
Discovered(lines) ==
    LET kept == SelectSeq(SubSeq(lines, 3, Len(lines)), LAMBDA l : l # "")
    IN  [k \in 1..Len(kept) |-> trim_start(kept[k])]

\* What running `cargo test --test` may give: no process at all, or an
\* exit status and a stderr that is valid UTF-8 or not.
Discoveries ==
    { [ran |-> FALSE, success |-> FALSE, utf8 |-> FALSE, lines |-> << >>] }
        \cup { [ran |-> TRUE, success |-> b, utf8 |-> FALSE, lines |-> << >>] : b \in BOOLEAN }
        \cup { [ran |-> TRUE, success |-> b, utf8 |-> TRUE, lines |-> l] :
                    b \in BOOLEAN, l \in Seqs(StderrLines, MaxStderr) }

\* The lines a test file may hold, and the end of the file.
FileLines == {"#[test]", "fn f() {", "fn f", "}"}

EndOfFile == "<eof>"

\* line.starts_with("#[test]")
IsTestAttr(l) == l = "#[test]"

\* next_line.starts_with("fn ") || next_line.contains(" fn ")
IsFn(l) == l \in {"fn f() {", "fn f"}

\* next_line.find(|c| c == '(' || c == '<') is Some
HasParen(l) == l = "fn f() {"

\* worker w is at pc
At(w, pc) == w \in 1..Len(xt.workers) /\ xt.workers[w].pc = pc

\* worker w moves to pc
Goto(w, pc) == [xt EXCEPT !.workers[w].pc = pc]

\* `xtask test` at the start of test()
XtaskInit ==
    /\ xt = [pc |-> "test", disc |-> None, workers |-> << >>, joined |-> 0,
             result |-> None, exit |-> None]
    /\ MatcherIdle
    /\ content = [head |-> 0, elem |-> 4, align |-> 4]
    /\ SizeIdle
    /\ rd = ReadIdle
    /\ VertexIdle
    /\ ProgramIdle
    /\ uni = UniIdle

\* let output = Command::new(cargo).args(&["test", "--test"]).output()?
Discover ==
    /\ xt.pc = "test"
    /\ \E d \in Discoveries :
        xt' = IF d.ran
              THEN [xt EXCEPT !.disc = d, !.pc = "utf8"]
              ELSE [xt EXCEPT !.disc = d, !.pc = "returned", !.result = Err("io::Error")]
    /\ UNCHANGED << mvars, cvars, vvars, pvars, uni >>

\* String::from_utf8(output.stderr)?
FromUtf8 ==
    /\ xt.pc = "utf8"
    /\ xt' = IF xt.disc.utf8
             THEN [xt EXCEPT !.pc = "spawn"]
             ELSE [xt EXCEPT !.pc = "returned", !.result = Err("FromUtf8Error")]
    /\ UNCHANGED << mvars, cvars, vvars, pvars, uni >>

\* One turn of the map closure: println!("running: {}", target) and
\* std::thread::spawn(move || test_target(cargo, target)).
Spawn ==
    /\ xt.pc = "spawn"
    /\ Len(xt.workers) < Len(Discovered(xt.disc.lines))
    /\ xt' = [xt EXCEPT !.workers = Append(@, [target |-> Discovered(xt.disc.lines)[Len(@) + 1],
                                               pc |-> "spawned"])]
    /\ UNCHANGED << mvars, cvars, vvars, pvars, uni >>

\* .collect::<Vec<_>>() has drained the iterator
Collected ==
    /\ xt.pc = "spawn"
    /\ Len(xt.workers) = Len(Discovered(xt.disc.lines))
    /\ xt' = [xt EXCEPT !.pc = "join"]
    /\ UNCHANGED << mvars, cvars, vvars, pvars, uni >>

\* test.join().unwrap_or_default(): waits for the thread, whatever its end
Join ==
    /\ xt.pc = "join"
    /\ xt.joined < Len(xt.workers)
    /\ xt.workers[xt.joined + 1].pc \in {"done", "panicked"}
    /\ xt' = [xt EXCEPT !.joined = @ + 1]
    /\ UNCHANGED << mvars, cvars, vvars, pvars, uni >>

\* Finish with the test of the status negated
FinishNegated ==
    /\ xt.pc = "join"
    /\ xt.joined = Len(xt.workers)
    /\ xt' = [xt EXCEPT !.pc = "returned",
                        !.result = IF ~xt.disc.success
                                   THEN Err("invalid arguments succeeded")
                                   ELSE Ok]
    /\ UNCHANGED << mvars, cvars, vvars, pvars, uni >>

\* if output.status.success() { Err("invalid arguments succeeded")?; } Ok(())
Finish ==
    /\ xt.pc = "join"
    /\ xt.joined = Len(xt.workers)
    /\ xt' = [xt EXCEPT !.pc = "returned",
                        !.result = IF xt.disc.success
                                   THEN Err("invalid arguments succeeded")
                                   ELSE Ok]
    /\ UNCHANGED << mvars, cvars, vvars, pvars, uni >>

\* main: if let Err(e) = try_main() { eprintln!(..); std::process::exit(-1) }
MainExit ==
    /\ xt.pc = "returned"
    /\ xt' = [xt EXCEPT !.pc = "exited",
                        !.exit = [code |-> IF xt.result = Ok THEN 0 ELSE -1]]
    /\ UNCHANGED << mvars, cvars, vvars, pvars, uni >>

\* File::open(file): the closure of .map runs only on Ok
WorkerOpen(w) ==
    /\ At(w, "spawned")
    /\ \E opened \in BOOLEAN : xt' = Goto(w, IF opened THEN "scan" ELSE "tail")
    /\ UNCHANGED << mvars, cvars, vvars, pvars, uni >>

\* while let Some(line) = lines.next() { if line.starts_with("#[test]") { .. } }
WorkerScan(w) ==
    /\ At(w, "scan")
    /\ \E line \in FileLines \cup {EndOfFile} :
        xt' = Goto(w, IF line = EndOfFile THEN "tail"
                      ELSE IF IsTestAttr(line) THEN "seek" ELSE "scan")
    /\ UNCHANGED << mvars, cvars, vvars, pvars, uni >>

\* next_line = lines.next().unwrap() until it is a fn line, then
\* next_line.find(..).unwrap()
WorkerSeek(w) ==
    /\ At(w, "seek")
    /\ \E line \in FileLines \cup {EndOfFile} :
        xt' = Goto(w, IF line = EndOfFile THEN "panicked"
                      ELSE IF ~IsFn(line) THEN "seek"
                      ELSE IF HasParen(line) THEN "cargo" ELSE "panicked")
    /\ UNCHANGED << mvars, cvars, vvars, pvars, uni >>

\* Command::new(&cargo).args(&["test", "--test", &target, "--", test]).output()
\* and the printing of what it wrote, if it ran
WorkerCargo(w) ==
    /\ At(w, "cargo")
    /\ xt' = Goto(w, "scan")
    /\ UNCHANGED << mvars, cvars, vvars, pvars, uni >>

\* println!("completed: {}", target)
WorkerTail(w) ==
    /\ At(w, "tail")
    /\ xt' = Goto(w, "done")
    /\ UNCHANGED << mvars, cvars, vvars, pvars, uni >>

\* test_target(cargo, target) on the thread of worker w
test_target(w) ==
    \/ WorkerOpen(w)
    \/ WorkerScan(w)
    \/ WorkerSeek(w)
    \/ WorkerCargo(w)
    \/ WorkerTail(w)

XtaskNext ==
    \/ Discover
    \/ FromUtf8
    \/ Spawn
    \/ Collected
    \/ Join
    \/ Finish
    \/ MainExit
    \/ \E w \in 1..Len(xt.workers) : test_target(w)

SpecXtask == XtaskInit /\ [][XtaskNext]_vars

\* ---------------------------------------------------------------- member order
RECURSIVE DistinctNames(_)
\* no Struct node of l has two members of one name
DistinctNames(l) ==
    l.kind = "Struct" =>
        /\ \A i, j \in 1..Len(l.members) : l.members[i][1] = l.members[j][1] => i = j
        /\ \A i \in 1..Len(l.members) : DistinctNames(l.members[i][2])

Orders(n) == { p \in [1..n -> 1..n] : Injective(p) }

RECURSIVE Permuted(_), Reordered(_, _, _)
\* the layouts that are l with the members of its Struct nodes in another order
Permuted(l) ==
    IF l.kind # "Struct" THEN {l}
    ELSE UNION { { Struct(ms) : ms \in Reordered(l.members, p, Len(l.members)) }
                    : p \in Orders(Len(l.members)) }

\* the first k members of ms in the order p, each with its layout reordered
Reordered(ms, p, k) ==
    IF k = 0 THEN { << >> }
    ELSE { Append(front, << ms[p[k]][1], c >>) :
                front \in Reordered(ms, p, k - 1), c \in Permuted(ms[p[k]][2]) }

\* A second T::matches(&layout, base), on the reflected layout of the first
\* with its members in another order.
Rematch ==
    /\ stack = << >>
    /\ result # None
    /\ first = None
    /\ reflected.kind = "Struct"
    /\ DistinctNames(reflected)
    /\ \E l \in Permuted(reflected) :
        /\ first' = [layout |-> reflected, val |-> result]
        /\ reflected' = l
        /\ stack' = << Frame(host, l, base) >>
        /\ log' = << [op |-> "call", depth |-> 1, ty |-> host, layout |-> l,
                      base_offset |-> base, field |-> "", field_offset |-> 0,
                      caller_base |-> base] >>
    /\ result' = None
    /\ ret' = None
    /\ UNCHANGED << tvars, vvars, cvars, host, base, built >>

PermuteNext ==
    \/ MatcherNext
    \/ Rematch

\* The member-order runs are made for a type of two basic fields and a type
\* whose field is such a struct.
PermuteHosts == {"Transform", "Entity"}

PermuteInit ==
    /\ MatcherInit
    /\ host \in PermuteHosts

SpecPermute == PermuteInit /\ [][PermuteNext]_vars

\* ---------------------------------------------------------------- properties
Min(S) == CHOOSE x \in S : \A y \in S : x <= y

Max(S) == CHOOSE x \in S : \A y \in S : x >= y

IsCall(i) == log[i].op = "call"

IsRet(i) == log[i].op = "ret"

\* the call event of the call that returns at event k
CallIdx(k) ==
    Max({ j \in 1..(k - 1) : IsCall(j) /\ log[j].depth = log[k].depth })

\* the event at which the call of event j returns, Len(log) + 1 while it runs
EndIdx(j) ==
    LET R == { k \in (j + 1)..Len(log) : IsRet(k) /\ log[k].depth = log[j].depth }
    IN  IF R = {} THEN Len(log) + 1 ELSE Min(R)

\* the calls the call of event j made
ChildCalls(j) ==
    { i \in (j + 1)..(EndIdx(j) - 1) : IsCall(i) /\ log[i].depth = log[j].depth + 1 }

Returned(i) == EndIdx(i) <= Len(log)

ReturnedOk(i) == Returned(i) /\ log[EndIdx(i)].val = Ok

MemberNames(l) == { l.members[i][1] : i \in 1..Len(l.members) }

\* the reflected members the host type does not declare
Undeclared(l, T) == { i \in 1..Len(l.members) : l.members[i][1] \notin field_names(T) }

\* the listed fields the reflected layout has no member for
Unreflected(l, T) == { f \in 1..Len(fields(T)) : fields(T)[f].name \notin MemberNames(l) }

\* the returns of the matches the macro generates
StructRets == { k \in 1..Len(log) : IsRet(k) /\ log[k].ty \in StructNames }

\* C1: round trip: T::matches(&T::build_layout(o), o) returns Ok(()) for
\* every host type T and every base offset o.
C1_RoundTrip == (built # NoLayout /\ result # None) => result = Ok

\* C2: matches returns Ok(()) exactly when the layout is a Struct node, every
\* member name is a field name, and every listed field has a member of its
\* name whose recursive match returned Ok; on Ok the two name sets are equal.
C2_OkIffAllPair ==
    \A k \in StructRets :
        LET j == CallIdx(k)
            l == log[j].layout
            T == log[k].ty
            AllPair ==
                /\ l.kind = "Struct"
                /\ MemberNames(l) \subseteq field_names(T)
                /\ \A f \in 1..Len(fields(T)) :
                      \E i \in ChildCalls(j) :
                          /\ log[i].field = fields(T)[f].name
                          /\ \E m \in 1..Len(l.members) :
                                l.members[m] = << log[i].field, log[i].layout >>
                          /\ ReturnedOk(i)
        IN  /\ (log[k].val = Ok) <=> AllPair
            /\ (log[k].val = Ok) => MemberNames(l) = field_names(T)

C2_Witness ==
    /\ result = Ok
    /\ host = "Entity"
    /\ Cardinality({ i \in 1..Len(log) : IsCall(i) }) = 4

C4_FirstUndeclaredMember ==
    \A k \in StructRets :
        LET j == CallIdx(k)
            l == log[j].layout
        IN  (l.kind = "Struct" /\ Undeclared(l, log[j].ty) # {}) =>
                log[k].val = MissingField(l.members[Min(Undeclared(l, log[j].ty))][1])

C4_Witness ==
    /\ result # None
    /\ reflected.kind = "Struct"
    /\ Cardinality(Undeclared(reflected, host)) >= 2
    /\ Cardinality({ reflected.members[i][1] : i \in Undeclared(reflected, host) }) >= 2
    /\ result.tag = "MissingField"

\* C5: when every member name is a field name and some listed field has no
\* member, matches fails with MissingField carrying the name of the first
\* such field, provided every field listed before it matched successfully.
C5_FirstUnreflectedField ==
    \A k \in StructRets :
        LET j == CallIdx(k)
            l == log[j].layout
            T == log[j].ty
        IN  (/\ l.kind = "Struct"
             /\ Undeclared(l, T) = {}
             /\ Unreflected(l, T) # {}
             /\ \A g \in 1..(Min(Unreflected(l, T)) - 1) :
                   \E i \in ChildCalls(j) :
                       log[i].field = fields(T)[g].name /\ ReturnedOk(i))
            => log[k].val = MissingField(fields(T)[Min(Unreflected(l, T))].name)

C5_Witness ==
    /\ result # None
    /\ host = "Object"
    /\ reflected.kind = "Struct"
    /\ Undeclared(reflected, host) = {}
    /\ Unreflected(reflected, host) = {2}
    /\ result = MissingField("xf")

\* C6: fields are compared in listing order, and the first field whose
\* recursive match fails with e makes matches return MemberMismatch{field, e}
\* at once: nothing is looked up or compared in between.
C6_ShortCircuit ==
    /\ \A j \in 1..Len(log) :
          (IsCall(j) /\ log[j].ty \in StructNames) =>
              \A i \in ChildCalls(j) :
                  log[i].field =
                      fields(log[j].ty)[1 + Cardinality({ h \in ChildCalls(j) : h < i })].name
    /\ \A i \in 1..(Len(log) - 1) :
          (IsRet(i) /\ log[i].depth > 1 /\ log[i].val # Ok) =>
              /\ IsRet(i + 1)
              /\ log[i + 1].depth = log[i].depth - 1
              /\ log[i + 1].val = MemberMismatch(log[CallIdx(i)].field, log[i].val)

C6_Witness ==
    /\ result # None
    /\ host = "Transform"
    /\ result.tag = "MemberMismatch"
    /\ result.member = "pos"
    /\ "rot" \in MemberNames(reflected)
    /\ \A i \in 1..Len(log) : IsCall(i) => log[i].field # "rot"

\* the error e wrapped in MemberMismatch for path[i], .., path[Len(path)]
RECURSIVE Wrapped(_, _, _)
Wrapped(path, e, i) ==
    IF i > Len(path) THEN e ELSE MemberMismatch(path[i], Wrapped(path, e, i + 1))

\* the first error any call returned
FirstErr == Min({ k \in 1..Len(log) : IsRet(k) /\ log[k].val # Ok })

\* the fields leading from the outermost call to the call returning at k
PathTo(k) ==
    [n \in 1..(log[k].depth - 1) |->
        log[Max({ j \in 1..(k - 1) : IsCall(j) /\ log[j].depth = n + 1 })].field]

\* C7: the error matches returns is the error of the call that first
\* failed, d levels below the outermost call, wrapped in exactly d
\* MemberMismatch whose members are, outermost first, the fields on the path
\* to that call; the innermost error is a MissingField or a LayoutMismatch.
C7_ErrorPath ==
    (result # None /\ result # Ok) =>
        /\ log[FirstErr].val.tag \in {"MissingField", "LayoutMismatch"}
        /\ result = Wrapped(PathTo(FirstErr), log[FirstErr].val, 1)

C7_Witness ==
    /\ result # None
    /\ result # Ok
    /\ log[FirstErr].depth = 4
    /\ result.tag = "MemberMismatch"
    /\ result.err.tag = "MemberMismatch"
    /\ result.err.err.tag = "MemberMismatch"
    /\ result.err.err.err.tag = "LayoutMismatch"

\* C8: the base offset matches passes to a field type's matches is the
\* field's offset plus its own base_offset.
C8_RecursionOffset ==
    \A i \in 1..Len(log) :
        (IsCall(i) /\ log[i].depth > 1) =>
            log[i].base_offset = log[i].field_offset + log[i].caller_base

\* the layout a type demands at offset off, node by node
RECURSIVE Demands(_, _, _)
Demands(T, l, off) ==
    IF T \in BasicNames
    THEN l.kind = "Leaf" /\ l.type_tag = type_tag(T) /\ l.offset = off
    ELSE /\ l.kind = "Struct"
         /\ Len(l.members) = Len(fields(T))
         /\ \A f \in 1..Len(fields(T)) :
               /\ l.members[f][1] = fields(T)[f].name
               /\ Demands(fields(T)[f].ty, l.members[f][2], fields(T)[f].offset + off)

\* C9: build_layout(base_offset) is a Struct node with one member per listed
\* field, in listing order, each the field's name with the field type's
\* layout at field offset + base_offset, recursively; never a Leaf.
C9_BuildLayoutShape == built # NoLayout => Demands(host, built, base)

C9_Witness ==
    /\ built # NoLayout
    /\ host = "Scene"
    /\ base > 0

Multiple(x, s) == \E q \in 0..x : x = q * s

\* C10: is_size_suitable(size) is true exactly when size > fixed_size and
\* size - fixed_size is a multiple of stride; a size below fixed_size is
\* rejected and size - fixed_size is not evaluated for it.
C10_SizeSuitable ==
    cop = "is_size_suitable" =>
        LET fixed_size == size_of_val(content, 0)
            stride == size_of_val(content, 1) - size_of_val(content, 0)
        IN  /\ (cres.value = True) <=>
                  (csize > fixed_size /\ Multiple(csize - fixed_size, stride))
            /\ csize < fixed_size => (cres.value = False /\ ~cres.underflow)

C10_Witness ==
    /\ cop = "is_size_suitable"
    /\ cres.value = True
    /\ step(content) > 1
    /\ csize > min_size(content) + step(content)

\* C11: for a type of positive stride, ref_from_ptr returns a view of
\* (size - fixed_size) / stride elements exactly when is_size_suitable(size)
\* is true, and None otherwise.
C11_CountIffSuitable ==
    (cop = "is_size_suitable" /\ cref.tag # "none" /\ csize = rsize /\ step(content) > 0) =>
        LET fixed_size == size_of_val(content, 0)
            stride == size_of_val(content, 1) - size_of_val(content, 0)
        IN  /\ cres.value = True =>
                  cref = [tag |-> "Some", count |-> (csize - fixed_size) \div stride]
            /\ cres.value # True => cref.tag = "None"

\* C16: the stride of every type the macro is applied to is positive, and
\* neither is_size_suitable nor ref_from_ptr takes a remainder by 0.
C16_StridePositive ==
    (cop = "is_size_suitable" \/ cref.tag # "none") =>
        /\ step(content) > 0
        /\ cres.value # Panic
        /\ cref.tag # "panic"

ReadCalled == rd.pc # "idle"

ReadAborted == rd.pc \in {"assert_failed", "panicked"}

\* C12: for a type of positive stride, a buffer of exactly fixed_size bytes
\* is valid: is_size_suitable is true for it and read does not abort but
\* hands out a view whose trailing slice has length 0.
C12_ZeroElementsValid ==
    (ReadCalled /\ rd.size = size_of_val(content, 0) /\ step(content) > 0) =>
        /\ rd.suitable = True
        /\ ~ReadAborted
        /\ rd.pc \in {"init", "done"} => rd.view_len = 0

\* C13: read aborts on the assertion whenever is_size_suitable(size) is
\* false, before it allocates and before it calls init; nothing is returned.
C13_AssertBeforeAlloc ==
    (ReadCalled /\ is_size_suitable(content, rd.size).value = False) =>
        /\ rd.pc = "assert_failed"
        /\ rd.storage = << >>
        /\ rd.view_len = 0
        /\ rd.init_calls = 0
        /\ rd.init_res.tag = "none"
        /\ rd.out.tag = "none"

C13_Witness ==
    /\ rd.pc = "assert_failed"
    /\ rd.size > min_size(content)
    /\ step(content) > 1

\* C14: on a suitable size read calls init exactly once, on a view of exactly
\* size bytes; it returns Ok(buffer) exactly when init returned Ok, and
\* init's Err(e) as it is, with no buffer.
C14_InitOnceOnSizeBytes ==
    /\ rd.pc \in {"init", "done"} => size_of_val(content, rd.view_len) = rd.size
    /\ rd.pc = "init" => rd.init_calls = 0
    /\ rd.pc = "done" =>
          /\ rd.init_calls = 1
          /\ (rd.out.tag = "Ok") <=> (rd.init_res.tag = "Ok")
          /\ rd.init_res.tag = "Err" => rd.out = rd.init_res

\* C15: the storage read hands to init is zeroed: every byte is 0 when init
\* is called, and a byte init does not write is 0 in the returned buffer.
C15_ZeroedStorage ==
    /\ rd.pc = "init" => \A i \in 1..rd.size : rd.storage[i] = 0
    /\ (rd.pc = "done" /\ rd.out.tag = "Ok") =>
          \A i \in (1..rd.size) \ rd.out.written : rd.out.buffer[i] = 0

\* ---------------------------------------------------------------- vertex formats
\* the invocation that implemented the type of the k-th build_bindings call
InvOf(k) == impls[calls[k].ty].inv

\* the declared fields of T under that name
Declared(T, name) ==
    { f \in 1..Len(vertex_fields(T)) : vertex_fields(T)[f].name = name }

\* d describes the declared field of T listed as arg, with that location and flag
Describes(d, T, arg, location, normalize) ==
    \E f \in Declared(T, arg.field) :
        d = << vertex_fields(T)[f].name, vertex_fields(T)[f].offset, location,
               Attribute_TYPE(vertex_fields(T)[f].ty), normalize >>

\* C17: implement_vertex!(T, f1, ..., fn), with or without a trailing comma,
\* makes build_bindings return exactly n descriptors in the listed order, the
\* i-th being (name of fi, memory offset of fi in T, -1, type tag of fi's
\* type, false); Vertex listed as position, color gives
\* [("position",0,-1,vec2,false), ("color",8,-1,vec3,false)].
C17_PlainForm ==
    \A k \in 1..Len(calls) :
        InvOf(k).form \in {"plain", "plain,"} =>
            /\ Len(calls[k].format) = Len(InvOf(k).args)
            /\ \A i \in 1..Len(InvOf(k).args) :
                    Describes(calls[k].format[i], calls[k].ty, InvOf(k).args[i], -1, FALSE)
            /\ (calls[k].ty = "Vertex"
                    /\ InvOf(k).args = << [field |-> "position"], [field |-> "color"] >>) =>
                calls[k].format = << << "position", 0, -1, "vec2", FALSE >>,
                                     << "color", 8, -1, "vec3", FALSE >> >>

\* build_bindings returned for a type implemented with a trailing comma whose
\* two listed fields do not lie in listing order in memory, and for a type
\* implemented without the comma
C17_Witness ==
    /\ \E k \in 1..Len(calls) :
        /\ InvOf(k).form = "plain,"
        /\ Len(calls[k].format) = 2
        /\ calls[k].format[1][2] > calls[k].format[2][2]
    /\ \E k \in 1..Len(calls) :
        /\ InvOf(k).form = "plain"
        /\ Len(calls[k].format) = 1

\* name, offset and type tag of every descriptor, in order
Fixed(format) == [i \in 1..Len(format) |-> << format[i][1], format[i][2], format[i][4] >>]

\* the same fields listed without options
Unadorned(args) == [i \in 1..Len(args) |-> [field |-> args[i].field]]

\* C18: in the location(..) form every descriptor carries its own field's
\* given location and normalize false, in the normalize(..) form its own
\* field's given flag and location -1; names, offsets, type tags and order
\* are those of the plain form on the same fields.
C18_OverridesOnlyOverride ==
    \A k \in 1..Len(calls) :
        LET T == calls[k].ty
            args == InvOf(k).args
            format == calls[k].format
        IN  /\ InvOf(k).form = "location" =>
                /\ Len(format) = Len(args)
                /\ \A i \in 1..Len(args) :
                        Describes(format[i], T, args[i], args[i].location, FALSE)
                /\ Fixed(format) = Fixed(plain_arm(T, Unadorned(args)))
            /\ InvOf(k).form = "normalize" =>
                /\ Len(format) = Len(args)
                /\ \A i \in 1..Len(args) :
                        Describes(format[i], T, args[i], -1, args[i].should_normalize)
                /\ Fixed(format) = Fixed(plain_arm(T, Unadorned(args)))

\* build_bindings returned for a type implemented with two different
\* locations and for a type implemented with normalize(true)
C18_Witness ==
    /\ \E k \in 1..Len(calls) :
        /\ InvOf(k).form = "location"
        /\ Len(InvOf(k).args) = 2
        /\ InvOf(k).args[1].location # InvOf(k).args[2].location
        /\ calls[k].format[1][3] = 3
    /\ \E k \in 1..Len(calls) :
        /\ InvOf(k).form = "normalize"
        /\ InvOf(k).args[1].should_normalize
        /\ calls[k].format[1][5]

C20_MemberOrder ==
    (first # None /\ result # None) => ((first.val = Ok) <=> (result = Ok))

\* matches returned Ok on a layout and on a true reordering of it
C20_Witness ==
    /\ first # None
    /\ result = Ok
    /\ first.val = Ok
    /\ reflected # first.layout

\* ---------------------------------------------------------------- member loop
\* the member checks the call of event j made before event i
MemberChecks(j, i) ==
    { e \in (j + 1)..(i - 1) : log[e].op = "member" /\ log[e].depth = log[j].depth }

\* C25: a call on a Struct layout has checked every reflected member
\* against the listed fields before it looks up or compares any field; with a
\* member the host does not declare it returns MissingField with the name of
\* an undeclared member and has compared no field, whatever the fields
\* would have given.
C25_MembersBeforeFields ==
    \A j \in 1..Len(log) :
        (IsCall(j) /\ log[j].ty \in StructNames /\ log[j].layout.kind = "Struct") =>
            LET l == log[j].layout
                T == log[j].ty
            IN  /\ \A i \in ChildCalls(j) :
                        Cardinality(MemberChecks(j, i)) = Len(l.members)
                /\ (Returned(j) /\ Undeclared(l, T) # {}) =>
                        /\ ChildCalls(j) = {}
                        /\ log[EndIdx(j)].val.tag = "MissingField"
                        /\ log[EndIdx(j)].val.name \notin field_names(T)

\* matches returned MissingField for the added member although the member
\* of the first field lies at another offset than the host's field
C25_Witness ==
    /\ host = "Transform"
    /\ base = 0
    /\ result = MissingField("extra")
    /\ reflected.members[1] = << "pos", Leaf("FloatVec2", 8) >>

\* the members of l carrying a name an earlier member carries
LaterDuplicates(l) ==
    { m \in 1..Len(l.members) : \E k \in 1..(m - 1) : l.members[k][1] = l.members[m][1] }

\* C26: with two or more members of one name, a field is compared against
\* the first member of its name in member order and against no other: every
\* field is compared at most once, so a later duplicate is never compared
\* and matches can return Ok although it has an incompatible layout.
C26_FirstDuplicateOnly ==
    \A j \in 1..Len(log) :
        (IsCall(j) /\ log[j].ty \in StructNames /\ log[j].layout.kind = "Struct") =>
            LET l == log[j].layout
            IN  /\ \A i \in ChildCalls(j) :
                        \E m \in 1..Len(l.members) :
                            /\ m \notin LaterDuplicates(l)
                            /\ l.members[m] = << log[i].field, log[i].layout >>
                /\ \A h, i \in ChildCalls(j) : log[h].field = log[i].field => h = i

\* matches returned Ok on a layout whose last member repeats the name of an
\* earlier one with a layout no field of the host has
C26_Witness ==
    /\ result = Ok
    /\ reflected.kind = "Struct"
    /\ Len(reflected.members) \in LaterDuplicates(reflected)
    /\ reflected.members[Len(reflected.members)][2] = Leaf("FloatMat3", 0)

\* ---------------------------------------------------------------- program! claims
\* the first listed entry whose version the backend supports, 0 if none
FirstSupported ==
    LET S == { i \in 1..Len(entries) : parse_entry(entries[i]) \in backend }
    IN  IF S = {} THEN 0 ELSE Min(S)

\* C21: the listed versions are queried in listing order, one
\* is_glsl_version_supported call each, up to the first supported one; the
\* program is built from that entry, no later entry is queried or compiled,
\* and Program::new is called at most once.
C21_FirstSupportedVersion ==
    /\ \A q \in 1..Len(pgm.queries) :
          /\ pgm.queries[q].i = q
          /\ pgm.queries[q].supported = (pgm.queries[q].version \in backend)
    /\ FirstSupported # 0 => Len(pgm.queries) <= FirstSupported
    /\ Len(pgm.news) <= 1
    /\ \A n \in 1..Len(pgm.news) : pgm.news[n].i = FirstSupported
    /\ (pgm.pc = "done" /\ FirstSupported # 0) =>
          /\ Len(pgm.queries) = FirstSupported
          /\ Len(pgm.news) = 1

\* the first of two supported entries was built and the second never queried
C21_Witness ==
    /\ pgm.pc = "done"
    /\ Len(entries) = 2
    /\ parse_entry(entries[2]) \in backend
    /\ entries[1] # entries[2]
    /\ Len(pgm.queries) = 1
    /\ Len(pgm.news) = 1

\* C22: program! returns Err(NoVersion) exactly when the list is empty or
\* no listed version is supported, and then Program::new was not called.
C22_NoVersion ==
    pgm.pc = "done" =>
        /\ (pgm.out = Err(NoVersion)) <=> (FirstSupported = 0)
        /\ pgm.out = Err(NoVersion) => pgm.news = << >>

\* two listed versions, none supported, NoVersion returned
C22_Witness ==
    /\ pgm.pc = "done"
    /\ Len(entries) = 2
    /\ Len(pgm.queries) = 2
    /\ pgm.out = Err(NoVersion)

\* the pairs of the block that give that key
GivenAt(block, key) == { k \in 1..Len(block.pairs) : block.pairs[k].ty = key }

\* the value the block leaves for a key: its last pair of that key, else d
Setting(block, key, d) ==
    IF GivenAt(block, key) = {} THEN d ELSE block.pairs[Max(GivenAt(block, key))].src

\* Some of the value the block leaves for a key, None without one
OptSetting(block, key) ==
    IF GivenAt(block, key) = {} THEN None ELSE Some(block.pairs[Max(GivenAt(block, key))].src)

\* C23: the input handed to Program::new has outputs_srgb true and
\* uses_point_size false unless the block gives outputs_srgb / point_size,
\* tessellation and geometry shaders None unless given, and every key of the
\* block sets its own component and no other.
C23_BlockDefaults ==
    \A n \in 1..Len(pgm.news) :
        LET block == pgm.news[n].block
            input == pgm.news[n].input
        IN  /\ input.outputs_srgb = Setting(block, "outputs_srgb", TRUE)
            /\ input.uses_point_size = Setting(block, "point_size", FALSE)
            /\ input.vertex_shader = Setting(block, "vertex", "")
            /\ input.fragment_shader = Setting(block, "fragment", "")
            /\ input.tessellation_control_shader = OptSetting(block, "tessellation_control")
            /\ input.tessellation_evaluation_shader = OptSetting(block, "tessellation_evaluation")
            /\ input.geometry_shader = OptSetting(block, "geometry")
            /\ input.transform_feedback_varyings = None
            /\ (pgm.out.tag = "Ok" => pgm.out.program = input)

\* a program was built from a block that gives point_size and not outputs_srgb
C23_Witness ==
    /\ pgm.pc = "done"
    /\ pgm.out.tag = "Ok"
    /\ Len(pgm.news) = 1
    /\ GivenAt(pgm.news[1].block, "point_size") # {}
    /\ GivenAt(pgm.news[1].block, "outputs_srgb") = {}
    /\ pgm.out.program.uses_point_size
    /\ pgm.out.program.outputs_srgb
    /\ pgm.out.program.geometry_shader = None

\* C27: when Program::new fails for the first supported version, program!
\* returns that error converted to ProgramChooserCreationError and neither
\* queries nor builds a later version.
C27_NoFallback ==
    \A n \in 1..Len(pgm.news) :
        pgm.news[n].result.tag = "Err" =>
            /\ pgm.pc = "done"
            /\ pgm.out = Err(ChooserError_from(pgm.news[n].result.e))
            /\ Len(pgm.news) = 1
            /\ Len(pgm.queries) = pgm.news[n].i

\* the build of the first entry failed and the second entry is supported
C27_Witness ==
    /\ pgm.pc = "done"
    /\ Len(entries) = 2
    /\ parse_entry(entries[2]) \in backend
    /\ Len(pgm.news) = 1
    /\ pgm.news[1].i = 1
    /\ pgm.news[1].result.tag = "Err"

\* major and minor are the hundreds of N, cut to 8 bits, and the tens of N
Decimal(N, v) ==
    /\ v.major \in 0..255
    /\ v.minor \in 0..9
    /\ \E h \in 0..(N \div 100), d \in 0..9 :
          /\ N = 100 * h + 10 * v.minor + d
          /\ (h - v.major) % 256 = 0

\* C28: `N =>` is queried as Version(Gl, N / 100, (N % 100) / 10) cut to 8
\* bits, except `100 =>` which is Version(GlEs, 1, 0); `N es =>` as
\* Version(GlEs, N / 100, (N % 100) / 10) cut to 8 bits; the last digit of N
\* plays no part.
C28_VersionParsing ==
    \A q \in 1..Len(pgm.queries) :
        LET e == entries[pgm.queries[q].i]
            v == pgm.queries[q].version
        IN  /\ (~e.es /\ e.num = 100) => v = Version("GlEs", 1, 0)
            /\ (e.es \/ e.num # 100) =>
                  /\ v.api = IF e.es THEN "GlEs" ELSE "Gl"
                  /\ Decimal(e.num, v)
            /\ (~e.es /\ e.num = 300) => v = Version("Gl", 3, 0)
            /\ (~e.es /\ e.num = 109) => v = Version("Gl", 1, 0)
            /\ (e.es /\ e.num = 100) => v = Version("GlEs", 1, 0)
            /\ (e.es /\ e.num = 25930) => v = Version("GlEs", 3, 3)

\* `100 =>` and then `25930 =>`, whose hundreds do not fit 8 bits, were queried
C28_Witness ==
    /\ Len(pgm.queries) = 2
    /\ entries[1] = [num |-> 100, es |-> FALSE]
    /\ entries[2] = [num |-> 25930, es |-> FALSE]
    /\ pgm.queries[2].version = Version("Gl", 3, 3)

\* ---------------------------------------------------------------- uniform! claims
RECURSIVE Held(_)
\* the (name, value) pairs a storage holds, the one first put in first
Held(u) ==
    IF u = EmptyUniforms THEN << >>
    ELSE Append(Held(u.rest), [field |-> u.name, value |-> u.value])

\* C24: uniform!{f1: v1, .., fn: vn} calls UniformsStorage::new(f1, v1) and
\* then add(fi, vi) for i = 2..n in listing order, and its value holds the n
\* listed pairs and no other; uniform!{} is EmptyUniforms; a comma after the
\* last item changes nothing.
C24_UniformStorage ==
    uni.pc = "done" =>
        LET n == Len(uni.listed)
        IN  /\ n = 0 => (uni.out = EmptyUniforms /\ uni.calls = << >>)
            /\ n >= 1 =>
                  /\ Len(uni.calls) = n
                  /\ uni.calls[1] = [fn |-> "new", name |-> uni.listed[1].field,
                                     value |-> uni.listed[1].value]
                  /\ \A i \in 2..n :
                        uni.calls[i] = [fn |-> "add", name |-> uni.listed[i].field,
                                        value |-> uni.listed[i].value]
                  /\ uni.out.tag = "UniformsStorage"
                  /\ Held(uni.out) = uni.listed

\* uniform!{a: 5, b: 6,} of the macro's test was evaluated
C24_Witness ==
    /\ uni.pc = "done"
    /\ uni.trailing
    /\ uni.listed = << [field |-> "a", value |-> 5], [field |-> "b", value |-> 6] >>
    /\ Len(uni.calls) = 2

\* ---------------------------------------------------------------- xtask claims
InvalidArguments == Err("invalid arguments succeeded")

TestReturned == xt.pc \in {"returned", "exited"}

\* C29 as stated: the test task returns the error "invalid arguments
\* succeeded" (exit code -1) exactly when the discovery run exited
\* successfully, whatever the worker threads did.
C29_ErrIffDiscoverySucceeded ==
    /\ TestReturned =>
          ((xt.result = InvalidArguments) <=> (xt.disc.ran /\ xt.disc.success))
    /\ (xt.pc = "exited" /\ xt.result = InvalidArguments) => xt.exit.code = -1

\* C29 amended: whenever the test task returns, it returns the error
\* "invalid arguments succeeded" exactly when the discovery run exited
\* successfully and its stderr was valid UTF-8, whatever the worker threads
\* did; the process then exits with code -1.
C29_ErrIffSucceededAndUtf8 ==
    /\ TestReturned =>
          ((xt.result = InvalidArguments)
              <=> (xt.disc.ran /\ xt.disc.utf8 /\ xt.disc.success))
    /\ (xt.pc = "exited" /\ xt.result = InvalidArguments) => xt.exit.code = -1

\* the discovery run succeeded, a worker panicked, and the task exited with
\* the error
C29_Witness ==
    /\ xt.pc = "exited"
    /\ xt.result = InvalidArguments
    /\ xt.exit.code = -1
    /\ \E w \in 1..Len(xt.workers) : xt.workers[w].pc = "panicked"

\* C30: there is one worker per discovered target, all of them are spawned
\* before the first is joined, test() returns only after every worker has
\* ended, and by then every target announced has printed its completed line.
C30_AllSpawnedAllCompleted ==
    /\ \A w \in 1..Len(xt.workers) :
          xt.workers[w].target = Discovered(xt.disc.lines)[w]
    /\ (xt.pc = "join" \/ (TestReturned /\ xt.disc.utf8)) =>
          Len(xt.workers) = Len(Discovered(xt.disc.lines))
    /\ TestReturned => \A w \in 1..Len(xt.workers) : xt.workers[w].pc = "done"

====
